---- MODULE Spec2Model ----
(***************************************************************************)
(* Model of atomai/atomnet.py: the training controller net_train (its      *)
(* constructor and its run loop) and the inference controller net_predict; *)
(* of atomai/models/dklgp/dklgpr.py: the calls on a fitted dklGPR; and of  *)
(* atomai/models/segmentor.py: Segmentor.fit with seg_augmentor.           *)
(*                                                                         *)
(* Each call is analysed from its own initial states:                      *)
(*   - net_train(...)  : the constructor, lines 80-146;                    *)
(*   - net_train.run() : the training loop, lines 179-218, entered with    *)
(*                       the fields that lines 130-145 assign;             *)
(*   - net_predict.run(): the tiling loop, lines 306-322;                  *)
(*   - net_predict(...): the constructor, lines 254-285, and its run();    *)
(*   - dklGPR          : decode, predict, sample_from_posterior, embed     *)
(*                       after fit(), dklgpr.py lines 77-187;              *)
(*   - Segmentor.fit   : segmentor.py lines 138-145 and 198-224.           *)
(* The constructor of net_train reads the undefined name                   *)
(* plot_training_history at line 144 (the parameter is called plot_losses),*)
(* so it raises NameError before line 146 calls run(); run() is therefore  *)
(* modelled as a method called on a controller object directly.            *)
(***************************************************************************)
EXTENDS Integers, Sequences, FiniteSets, TLC

\* ---------------------------------------------------------------- bounds
MaxSamples == 5   \* samples in a bulk array
MaxBatch   == 3   \* batch_size argument
MaxLabel   == 2   \* largest label value: label chunks hold 1..MaxLabel+1 distinct values
MaxChunks  == 2   \* chunks in a list / dict dataset, batches in a run() dataset
MaxChunk   == 2   \* samples per chunk of a list / dict dataset
MaxCycles  == 3   \* training_cycles argument
StackSpan  == 1   \* image stacks hold 0 .. TileStack + StackSpan images
DimSpan    == 1   \* image sides are TileDim - DimSpan .. TileDim + DimSpan
MaxPixel   == 2   \* an image's content is one of 0 .. MaxPixel
MaxCalls   == 4   \* calls made on a fitted dklGPR in one session
MaxLoader  == 2   \* batches the data loader of dklGPR.predict yields
MaxRank    == 4   \* image_data passed to net_predict(...) has rank 1 .. MaxRank
MaxStack   == 2   \* a rank-3 image_data passed to net_predict(...) holds 1 .. MaxStack images
MaxOption  == 2   \* a keyword argument of Segmentor.fit has a value in 1 .. MaxOption

\* ------------------------------------------------------ program constants
TileStack == 20   \* atomnet.py:309
TileDim   == 512  \* atomnet.py:309
PrintDecimals == 4  \* atomnet.py:215

VARIABLES
    pc,               \* position of the call under analysis
    err,              \* exception that ended the call, or "none"
    forms,            \* types of (images_all, labels_all, images_test_all, labels_test_all)
    arg_labels,       \* labels_all as passed by the caller
    arg_labels_test,  \* labels_test_all as passed by the caller
    batch_size,
    images_all,       \* local / field: sequence of chunk sizes
    labels_all,       \* local / field: sequence of chunks [size, vals]
    images_test_all,
    labels_test_all,
    classes,          \* the set built at lines 84 / 86 / 95
    num_classes,      \* the integer of lines 104-107 (0: not yet computed)
    net,              \* self.net
    criterion,        \* self.criterion
    fields,           \* names of the other attributes set on self
    training_cycles,
    e,                \* loop variable of run()
    train_loss,
    test_loss,
    batch,            \* what dataloader returned last
    mode,             \* net.train() / net.eval()
    best,             \* file model_test_weights_best.pt
    best_saves,       \* cycles at which that file was written
    final,            \* file model_weights_final.pt
    idx,              \* loop variable of the final evaluation
    visited,          \* batch numbers read by the final evaluation
    eval_losses,      \* losses returned to the final evaluation
    running_loss_test,
    report,           \* value printed at lines 214-215, in units of 10^-PrintDecimals
    plotted,          \* plot_losses called at line 217
    image_shape,      \* self.image_data.shape of net_predict: <<n, c, h, w>>
    tile,             \* loop variable i of net_predict.run
    passes,           \* forward passes made by net_predict.predict, in order
    decoded,          \* decoded_imgs: per image index, the pass that produced its map
    image_data,       \* self.image_data: per image index, the image's content
    decoded_imgs,     \* decoded_imgs: per image index, [dtype, v] of its probability map
    image_arg,        \* image_data as passed to net_predict(...): [ndim, items]
    ndim,             \* image_data.ndim of the local image_data in net_predict.__init__
    mock_passes,      \* forward passes mock_forward made on mock data
    correlated_output,   \* dklGPR.correlated_output
    gp_mode,             \* gp_model.train() / gp_model.eval()
    likelihood_mode,     \* likelihood.train() / likelihood.eval()
    prediction_strategy, \* gp_model.prediction_strategy: [cached, by]; by is the query that computed it
    queries,             \* posterior queries made so far: calls of gp_model on inputs
    ops,                 \* the calls made on the dklGPR object, in order, with their outcome
    kwargs,           \* **kwargs of Segmentor.fit: a set of <<key, value>>, keys distinct
    augment_fn,       \* Segmentor.augment_fn
    aug_cycle,        \* training cycle of the trainer run started by Segmentor.fit
    aug_batch,        \* the training batch selected in the last cycle: [images, labels]
    aug_out,          \* that batch as it reaches the training step
    dt_calls          \* the datatransform objects constructed, in order

ctorVars == <<forms, arg_labels, arg_labels_test, classes, num_classes, criterion, fields>>
dataVars == <<batch_size, images_all, labels_all, images_test_all, labels_test_all>>
runVars  == <<e, train_loss, test_loss, batch, mode, best, best_saves, final, idx,
              visited, eval_losses, running_loss_test, report, plotted>>
initVars == <<image_arg, ndim, mock_passes>>
predVars == <<image_shape, tile, passes, decoded, image_data, decoded_imgs, initVars>>
gpVars   == <<correlated_output, gp_mode, likelihood_mode, prediction_strategy, queries, ops>>
augVars  == <<kwargs, augment_fn, aug_cycle, aug_batch, aug_out, dt_calls>>
restVars == <<gpVars, augVars>>
vars == <<pc, err, ctorVars, dataVars, net, training_cycles, runVars, predVars, restVars>>

\* ------------------------------------------------------------ Python floats
\* loss.item() is a Python float: a number, NaN, +inf or -inf.
Num(n)  == [k |-> "num", v |-> n]
NaN     == [k |-> "nan", v |-> 0]
PosInf  == [k |-> "pinf", v |-> 0]
NegInf  == [k |-> "ninf", v |-> 0]

IsFinite(a) == a.k = "num"

\* a < b on floats (IEEE 754: every comparison with NaN is false)
FLt(a, b) ==
    /\ a.k # "nan" /\ b.k # "nan"
    /\ \/ a.k = "ninf" /\ b.k # "ninf"
       \/ a.k = "num" /\ b.k = "pinf"
       \/ a.k = "num" /\ b.k = "num" /\ a.v < b.v

\* a <= b on floats
FLe(a, b) ==
    /\ a.k # "nan" /\ b.k # "nan"
    /\ \/ a.k = "ninf"
       \/ b.k = "pinf"
       \/ a.k = "num" /\ b.k = "num" /\ a.v <= b.v

\* a + b on floats
FAdd(a, b) ==
    IF a.k = "nan" \/ b.k = "nan" THEN NaN
    ELSE IF a.k = "num" /\ b.k = "num" THEN Num(a.v + b.v)
    ELSE IF a.k = "num" THEN b
    ELSE IF b.k = "num" THEN a
    ELSE IF a.k = b.k THEN a
    ELSE NaN

\* a / n for an integer n > 0, kept as an exact fraction
FDiv(a, n) ==
    IF a.k = "num" THEN [k |-> "num", num |-> a.v, den |-> n]
    ELSE [k |-> a.k, num |-> 0, den |-> 1]

RECURSIVE Pow10(_)
Pow10(d) == IF d = 0 THEN 1 ELSE 10 * Pow10(d - 1)

\* the integer nearest to a / n for a >= 0 and n > 0, ties to the even one
RoundHalfEven(a, n) ==
    LET q == a \div n
        r == a % n
    IN  IF 2 * r < n THEN q
        ELSE IF 2 * r > n THEN q + 1
        ELSE q + (q % 2)

\* np.around(x, d) of a float kept as a fraction: the count of 10^-d units nearest to it
NpAround(x, d) ==
    IF x.k = "num" THEN [k |-> "num", v |-> RoundHalfEven(x.num * Pow10(d), x.den)]
    ELSE [k |-> x.k, v |-> 0]

\* Python's min(seq): keeps the first item and replaces it by a later item x only when x < it
RECURSIVE PyMinFrom(_, _, _)
PyMinFrom(s, i, m) ==
    IF i > Len(s) THEN m
    ELSE PyMinFrom(s, i + 1, IF FLt(s[i], m) THEN s[i] ELSE m)

PyMin(s) == PyMinFrom(s, 2, s[1])

\* ------------------------------------------------- net_train.__init__ inputs
Forms == {"list", "dict", "ndarray", "other"}

\* the sets of values a label sample or chunk may hold: {0}, {0,1}, ...
LabelSets == {0..j : j \in 0..MaxLabel}

Chunk(size, vals) == [size |-> size, vals |-> vals]

\* a list / dict of 1..MaxChunks label chunks of s samples each
ChunkLists(s) ==
    UNION {[1..n -> {Chunk(s, v) : v \in LabelSets}] : n \in 1..MaxChunks}

\* a bulk label array of n samples: every sample holds the values a, but sample p holds b
BulkLabels(n, a, b, p) == [i \in 1..n |-> Chunk(1, IF i = p THEN b ELSE a)]

Sizes(chunks) == [i \in 1..Len(chunks) |-> chunks[i].size]

\* --------------------------------------------------- net_train.__init__ code
\* type(images_all) == type(labels_all) == type(images_test_all) == type(labels_test_all)
SameFormat(f) == f[1] = f[2] /\ f[2] = f[3] /\ f[3] = f[4]

\* n_batches, _ = np.divmod(n, batch_size)
NBatches(n, b) == n \div b

\* np.split(ary, k) raises ValueError unless k > 0 sections divide the array equally
NpSplitOk(ary, k) == k > 0 /\ Len(ary) % k = 0

\* np.split(ary, k) on an array of samples: k chunks of Len(ary) / k consecutive samples
NpSplit(ary, k) ==
    LET m == Len(ary) \div k
    IN  [i \in 1..k |->
            Chunk(m, UNION {ary[j].vals : j \in ((i - 1) * m + 1)..(i * m)})]

\* set([len(np.unique(lab)) for lab in labels_all])
ClassCounts(labels) == {Cardinality(labels[i].vals) : i \in 1..Len(labels)}

\* OutputChannels without the binary case
OutputChannels_NoBinary(k) == k

\* num_classes - 1 if num_classes == 2 else num_classes
OutputChannels(k) == IF k = 2 THEN k - 1 ELSE k

ModelTypes == {"dilUnet", "dilnet", "other"}
LossKinds  == {"dice", "ce", "other"}

NoNet == [type |-> "none", nb_classes |-> 0, device |-> "none", steps |-> 0]

\* the branches of lines 120-129; "none" stands for the raise of line 127
Criterion(loss, nc) ==
    IF loss = "dice" THEN "dice"
    ELSE IF loss = "ce" /\ nc = 1 THEN "BCEWithLogitsLoss"
    ELSE IF loss = "ce" /\ nc > 2 THEN "CrossEntropyLoss"
    ELSE "none"

\* attributes assigned on self by lines 130-143
FieldsSet == {"batch_idx_train", "batch_idx_test", "optimizer", "images_all",
              "labels_all", "images_test_all", "labels_test_all", "num_classes",
              "batch_size", "training_cycles", "print_loss", "savedir"}

\* attributes run() reads that lines 144-145 assign
FieldsRun == FieldsSet \cup {"plot_training_history", "train_loss", "test_loss"}

\* images, labels = images_all[batch_num][:self.batch_size]: the samples in the batch
Dataloader(chunks, batch_num, b) ==
    IF chunks[batch_num + 1] < b THEN chunks[batch_num + 1] ELSE b

\* ------------------------------------------------------- values of idle parts
NoBatch  == [src |-> "none", num |-> 0, size |-> 0]
NoBest   == [exists |-> FALSE, cycle |-> 0, loss |-> NaN, steps |-> 0]
NoFinal  == [writes |-> 0, steps |-> 0, after |-> 0]
NoReport == [k |-> "none", v |-> 0]
NoStrategy == [cached |-> FALSE, by |-> 0]
NoAugmentor == [callable |-> FALSE, nb_classes |-> 0, augdict |-> {}]
NoTransform == [nb_classes |-> 0, seed |-> 0, options |-> {}]

\* a tensor as the data loader yields it: content x, no transform applied
Tensor(x) == [by |-> NoTransform, of |-> x]

NoAugBatch == [images |-> Tensor(0), labels |-> Tensor(0)]

IdleCtor ==
    /\ forms = <<"none", "none", "none", "none">>
    /\ arg_labels = <<>> /\ arg_labels_test = <<>>
    /\ classes = {} /\ num_classes = 0
    /\ criterion = "none" /\ fields = {}

IdleData ==
    /\ batch_size = 0
    /\ images_all = <<>> /\ labels_all = <<>>
    /\ images_test_all = <<>> /\ labels_test_all = <<>>

IdleRun ==
    /\ e = 0 /\ train_loss = <<>> /\ test_loss = <<>>
    /\ batch = NoBatch /\ mode = "unset"
    /\ best = NoBest /\ best_saves = <<>> /\ final = NoFinal
    /\ idx = 0 /\ visited = <<>> /\ eval_losses = <<>>
    /\ running_loss_test = Num(0) /\ report = NoReport /\ plotted = FALSE

NoArg == [ndim |-> 0, items |-> <<>>]

IdleInit == image_arg = NoArg /\ ndim = 0 /\ mock_passes = 0

IdlePred ==
    /\ image_shape = <<0, 0, 0, 0>> /\ tile = 0 /\ passes = <<>> /\ decoded = <<>>
    /\ image_data = <<>> /\ decoded_imgs = <<>>
    /\ IdleInit

IdleGP ==
    /\ correlated_output = FALSE
    /\ gp_mode = "unset" /\ likelihood_mode = "unset"
    /\ prediction_strategy = NoStrategy /\ queries = 0 /\ ops = <<>>

IdleAug ==
    /\ kwargs = {} /\ augment_fn = NoAugmentor /\ aug_cycle = 0
    /\ aug_batch = NoAugBatch /\ aug_out = NoAugBatch /\ dt_calls = <<>>

IdleRest == IdleGP /\ IdleAug

\* ------------------------------------------------------ net_train(...) called
\* Arguments in one format (list, dict or bulk array), in an unsupported format, or in
\* mixed formats. Images come with their labels: an image chunk has its label chunk's size.
InitConstruct ==
    /\ pc = "c_assert" /\ err = "none"
    /\ net = NoNet /\ training_cycles = 0
    /\ classes = {} /\ num_classes = 0 /\ criterion = "none" /\ fields = {}
    /\ batch_size \in 1..MaxBatch
    /\ \/ /\ \E f \in {"list", "dict"} : forms = <<f, f, f, f>>
          /\ \E s \in 1..MaxChunk :
                /\ arg_labels \in ChunkLists(s)
                /\ arg_labels_test \in ChunkLists(s)
       \/ /\ forms = <<"ndarray", "ndarray", "ndarray", "ndarray">>
          /\ \E n \in 1..MaxSamples, a \in LabelSets, b \in LabelSets, p \in 1..MaxSamples :
                /\ p <= n
                /\ arg_labels = BulkLabels(n, a, b, p)
          /\ \E n \in 1..MaxSamples, a \in LabelSets :
                arg_labels_test = BulkLabels(n, a, a, 1)
       \/ /\ forms \in [1..4 -> Forms]
          /\ ~SameFormat(forms) \/ forms[1] = "other"
          /\ arg_labels = <<Chunk(1, 0..1)>>
          /\ arg_labels_test = <<Chunk(1, 0..1)>>
    /\ labels_all = arg_labels /\ images_all = Sizes(arg_labels)
    /\ labels_test_all = arg_labels_test /\ images_test_all = Sizes(arg_labels_test)
    /\ IdleRun /\ IdlePred /\ IdleRest

Raise(x) == pc' = "raised" /\ err' = x

\* lines 80-82: assert type(images_all) == type(labels_all) == ...
\* (AssertionError; FormatMismatch in the specification's taxonomy)
CheckFormat ==
    /\ pc = "c_assert"
    /\ IF SameFormat(forms)
         THEN pc' = "c_normalize" /\ err' = err
         ELSE Raise("FormatMismatch")
    /\ UNCHANGED <<ctorVars, dataVars, net, training_cycles, runVars, predVars, restVars>>

\* lines 83-87: list and dict arguments are taken as they are
NormalizeChunks ==
    /\ pc = "c_normalize"
    /\ forms[2] \in {"list", "dict"}
    /\ classes' = ClassCounts(labels_all)
    /\ pc' = "c_classes"
    /\ UNCHANGED <<err, forms, arg_labels, arg_labels_test, num_classes, criterion, fields,
                   dataVars, net, training_cycles, runVars, predVars, restVars>>

\* lines 88-95: bulk arrays are split into n // batch_size sections;
\* np.split raises ValueError when a section count is 0 or does not divide its array
NormalizeBulk ==
    /\ pc = "c_normalize"
    /\ forms[2] = "ndarray"
    /\ LET n_train_batches == NBatches(Len(labels_all), batch_size)
           n_test_batches  == NBatches(Len(labels_test_all), batch_size)
       IN  IF /\ NpSplitOk(images_all, n_train_batches)
              /\ NpSplitOk(labels_all, n_train_batches)
              /\ NpSplitOk(images_test_all, n_test_batches)
              /\ NpSplitOk(labels_test_all, n_test_batches)
             THEN /\ labels_all' = NpSplit(labels_all, n_train_batches)
                  /\ images_all' = Sizes(labels_all')
                  /\ labels_test_all' = NpSplit(labels_test_all, n_test_batches)
                  /\ images_test_all' = Sizes(labels_test_all')
                  /\ classes' = ClassCounts(labels_all')
                  /\ pc' = "c_classes" /\ err' = err
             ELSE /\ Raise("ValueError")
                  /\ UNCHANGED <<labels_all, images_all, labels_test_all, images_test_all,
                                 classes>>
    /\ UNCHANGED <<forms, arg_labels, arg_labels_test, num_classes, criterion, fields,
                   batch_size, net, training_cycles, runVars, predVars, restVars>>

\* lines 96-101: any other type raises NotImplementedError
NormalizeOther ==
    /\ pc = "c_normalize"
    /\ forms[2] \notin {"list", "dict", "ndarray"}
    /\ Raise("UnsupportedFormat")
    /\ UNCHANGED <<ctorVars, dataVars, net, training_cycles, runVars, predVars, restVars>>

\* lines 102-107: one class count for all chunks, not 1; 2 becomes 1
\* (AssertionError twice; InconsistentClasses and MissingBackgroundClass in the taxonomy)
ValidateClasses ==
    /\ pc = "c_classes"
    /\ IF Cardinality(classes) # 1
         THEN Raise("InconsistentClasses") /\ UNCHANGED num_classes
         ELSE LET k == CHOOSE x \in classes : TRUE
              IN  IF k = 1
                    THEN Raise("MissingBackgroundClass") /\ UNCHANGED num_classes
                    ELSE /\ num_classes' = OutputChannels(k)
                         /\ pc' = "c_net" /\ err' = err
    /\ UNCHANGED <<forms, arg_labels, arg_labels_test, classes, criterion, fields,
                   dataVars, net, training_cycles, runVars, predVars, restVars>>

\* lines 108-119: the network is built for num_classes channels and moved to the GPU
BuildNet ==
    /\ pc = "c_net"
    /\ \E model_type \in ModelTypes :
          IF model_type \in {"dilUnet", "dilnet"}
            THEN /\ net' = [type |-> model_type, nb_classes |-> num_classes,
                            device |-> "cuda", steps |-> 0]
                 /\ pc' = "c_loss" /\ err' = err
            ELSE Raise("UnsupportedModelType") /\ UNCHANGED net
    /\ UNCHANGED <<ctorVars, dataVars, training_cycles, runVars, predVars, restVars>>

\* lines 120-129: the loss is chosen
SelectLoss ==
    /\ pc = "c_loss"
    /\ \E loss \in LossKinds :
          IF Criterion(loss, num_classes) # "none"
            THEN /\ criterion' = Criterion(loss, num_classes)
                 /\ pc' = "c_fields" /\ err' = err
            ELSE Raise("UnsupportedLoss") /\ UNCHANGED criterion
    /\ UNCHANGED <<forms, arg_labels, arg_labels_test, classes, num_classes, fields,
                   dataVars, net, training_cycles, runVars, predVars, restVars>>

\* lines 130-144: batch indices are drawn, the optimizer is built and the attributes are
\* set, up to line 144, which reads the undefined name plot_training_history: NameError.
\* Lines 145-146 (the loss histories, the call of run) are not reached.
StoreFields ==
    /\ pc = "c_fields"
    /\ \E cycles \in 0..MaxCycles : training_cycles' = cycles
    /\ fields' = FieldsSet
    /\ Raise("NameError")
    /\ UNCHANGED <<forms, arg_labels, arg_labels_test, classes, num_classes, criterion,
                   dataVars, net, runVars, predVars, restVars>>

NextConstruct ==
    \/ CheckFormat
    \/ NormalizeChunks
    \/ NormalizeBulk
    \/ NormalizeOther
    \/ ValidateClasses
    \/ BuildNet
    \/ SelectLoss
    \/ StoreFields

SpecConstruct == InitConstruct /\ [][NextConstruct]_vars

\* ---------------------------------------------------------- net_train.run()
\* The losses the criterion (an external collaborator) may return: numbers and the
\* non-finite floats.
TrainLosses == {Num(1), NaN}
TestLosses  == {Num(1), Num(2), NaN, PosInf, NegInf}
EvalLosses  == {Num(1), Num(2), NaN}

\* run() called on a controller whose attributes are those of lines 130-145:
\* MaxChunks training batches of MaxChunk samples, 1..MaxChunks test batches of one sample.
\* Batches are numbered from 0 (a list, or a dict keyed by 0 .. len-1); print_loss > 0.
InitRun ==
    /\ err = "none"
    /\ IdleCtor /\ IdlePred /\ IdleRest
    /\ net = [type |-> "dilUnet", nb_classes |-> 1, device |-> "cuda", steps |-> 0]
    /\ training_cycles \in 0..MaxCycles
    /\ pc = IF training_cycles > 0 THEN "r_train" ELSE "r_final"
    /\ batch_size \in {1, MaxChunk}
    /\ images_all = [i \in 1..MaxChunks |-> MaxChunk]
    /\ labels_all = [i \in 1..MaxChunks |-> Chunk(MaxChunk, 0..1)]
    /\ \E n \in 1..MaxChunks :
          /\ images_test_all = [i \in 1..n |-> 1]
          /\ labels_test_all = [i \in 1..n |-> Chunk(1, 0..1)]
    /\ IdleRun

\* line 201: e > 0 and self.test_loss[-1] < min(self.test_loss[:-1])
SaveBest(cycle, losses) ==
    /\ cycle > 0
    /\ FLt(losses[Len(losses)], PyMin(SubSeq(losses, 1, Len(losses) - 1)))

\* the loop left after its first cycle
AfterCycle_OneCycle(cycle) == "r_final"

\* for e in range(self.training_cycles): where the loop goes after cycle `cycle`
AfterCycle(cycle) == IF cycle + 1 < training_cycles THEN "r_train" ELSE "r_final"

\* lines 163-168: train_step makes one optimizer step; steps counts them, and the
\* parameters and the optimizer state are a function of that count
TrainStepNet(n) == [n EXCEPT !.steps = @ + 1]

\* a test step that also makes an optimizer step
TestStepNet_Optimize(n) == [n EXCEPT !.steps = @ + 1]

\* lines 173-176: test_step runs the forward pass under no_grad and makes no
\* optimizer step
TestStepNet(n) == n

\* lines 181-187: a training batch is loaded; train_step puts the net in training mode,
\* makes one optimizer step and returns the loss, which is appended
TrainStep ==
    /\ pc = "r_train"
    /\ \E num \in 0..(Len(images_all) - 1), loss \in TrainLosses :
          /\ batch' = [src |-> "train", num |-> num,
                       size |-> Dataloader(images_all, num, batch_size)]
          /\ train_loss' = Append(train_loss, loss)
    /\ mode' = "train"
    /\ net' = TrainStepNet(net)
    /\ pc' = "r_test"
    /\ UNCHANGED <<err, ctorVars, dataVars, training_cycles, e, test_loss, best,
                   best_saves, final, idx, visited, eval_losses, running_loss_test,
                   report, plotted, predVars, restVars>>

\* lines 188-203: a test batch is loaded; test_step puts the net in evaluation mode and
\* returns the loss, which is appended; the weights are saved as "best" on a new minimum
TestStep ==
    /\ pc = "r_test"
    /\ \E num \in 0..(Len(images_test_all) - 1), loss \in TestLosses :
          /\ batch' = [src |-> "test", num |-> num,
                       size |-> Dataloader(images_test_all, num, batch_size)]
          /\ test_loss' = Append(test_loss, loss)
          /\ IF SaveBest(e, test_loss')
               THEN /\ best' = [exists |-> TRUE, cycle |-> e, loss |-> loss,
                                steps |-> net.steps]
                    /\ best_saves' = Append(best_saves, e)
               ELSE UNCHANGED <<best, best_saves>>
    /\ mode' = "eval"
    /\ net' = TestStepNet(net)
    /\ e' = e + 1
    /\ pc' = AfterCycle(e)
    /\ UNCHANGED <<err, ctorVars, dataVars, training_cycles, train_loss, final, idx,
                   visited, eval_losses, running_loss_test, report, plotted, predVars, restVars>>

\* lines 204-208: the weights are saved as "final"; the evaluation starts from 0
SaveFinal ==
    /\ pc = "r_final"
    /\ final' = [writes |-> final.writes + 1, steps |-> net.steps, after |-> Len(test_loss)]
    /\ running_loss_test' = Num(0)
    /\ idx' = 0
    /\ pc' = "r_eval"
    /\ UNCHANGED <<err, ctorVars, dataVars, net, training_cycles, e, train_loss, test_loss,
                   batch, mode, best, best_saves, visited, eval_losses, report, plotted,
                   predVars, restVars>>

\* lines 209-213: test batch idx is loaded, evaluated and its loss added
EvalStep ==
    /\ pc = "r_eval"
    /\ idx < Len(images_test_all)
    /\ \E loss \in EvalLosses :
          /\ eval_losses' = Append(eval_losses, loss)
          /\ running_loss_test' = FAdd(running_loss_test, loss)
    /\ batch' = [src |-> "test", num |-> idx,
                 size |-> Dataloader(images_test_all, idx, batch_size)]
    /\ mode' = "eval"
    /\ net' = TestStepNet(net)
    /\ visited' = Append(visited, idx)
    /\ idx' = idx + 1
    /\ UNCHANGED <<pc, err, ctorVars, dataVars, training_cycles, e, train_loss,
                   test_loss, best, best_saves, final, report, plotted, predVars, restVars>>

\* lines 214-218: the mean loss is printed to 4 decimals, the histories are plotted if asked, the net
\* is returned (a division by zero if there is no test batch)
Report ==
    /\ pc = "r_eval"
    /\ idx >= Len(images_test_all)
    /\ IF Len(images_test_all) = 0
         THEN Raise("ZeroDivisionError") /\ UNCHANGED <<report, plotted>>
         ELSE /\ report' = NpAround(FDiv(running_loss_test, Len(images_test_all)),
                                     PrintDecimals)
              /\ \E plot_training_history \in BOOLEAN : plotted' = plot_training_history
              /\ pc' = "r_returned" /\ err' = err
    /\ UNCHANGED <<ctorVars, dataVars, net, training_cycles, e, train_loss, test_loss,
                   batch, mode, best, best_saves, final, idx, visited, eval_losses,
                   running_loss_test, predVars, restVars>>

NextRun ==
    \/ TrainStep
    \/ TestStep
    \/ SaveFinal
    \/ EvalStep
    \/ Report

SpecRun == InitRun /\ [][NextRun]_vars

\* --------------------------------------------------------- net_predict.run()
Dims == (TileDim - DimSpan)..(TileDim + DimSpan)

\* contents an image may have
Pixels == 0..MaxPixel

\* run() called on a controller whose image_data is a stack of n one-channel images
InitPredict ==
    /\ pc = "p_run" /\ err = "none"
    /\ IdleCtor /\ IdleData /\ IdleRun /\ IdleRest
    /\ training_cycles = 0
    /\ \E nb \in {1, MaxLabel + 1} :
          net = [type |-> "dilUnet", nb_classes |-> nb, device |-> "cpu", steps |-> 0]
    /\ \E n \in 0..(TileStack + StackSpan), h \in Dims, w \in Dims :
          image_shape = <<n, 1, h, w>>
    /\ \E b \in Pixels : image_data = [j \in 1..image_shape[1] |-> (j + b) % (MaxPixel + 1)]
    /\ tile = 0 /\ passes = <<>> /\ decoded = <<>> /\ decoded_imgs = <<>>
    /\ IdleInit

MinOf(a, b) == IF a < b THEN a ELSE b

\* the tiling test with "or" for "and"
SingleBatch_Or(shape) == shape[1] < TileStack \/ MinOf(shape[3], shape[4]) < TileDim

\* line 309: self.image_data.shape[0] < 20 and min(self.image_data.shape[2:4]) < 512
SingleBatch(shape) == shape[1] < TileStack /\ MinOf(shape[3], shape[4]) < TileDim

\* self.predict(images[lo:hi]): one forward pass over the images lo .. hi-1
Pass(lo, hi) == [lo |-> lo, hi |-> hi]

\* a slice that always takes the first image of the stack
Slice_First(images, lo, hi) == SubSeq(images, 1, hi - lo)

\* images[lo:hi] of a stack indexed from 0: the images lo .. hi-1
Slice(images, lo, hi) == SubSeq(images, lo + 1, hi)

\* line 294: self.model.forward on one image; the model is fixed (its parameters are
\* those of m) and in eval mode its output for an image depends on that image alone
Forward(m, img) == <<"forward", m.type, m.steps, img>>

\* lines 295-298: softmax over the channels for several classes, sigmoid for one
Activation(nb_classes, z) == IF nb_classes > 1 THEN <<"softmax", z>> ELSE <<"sigmoid", z>>

\* lines 287-304: predict(images) returns float32 maps, one per image, channel last
Predict(images) ==
    [j \in 1..Len(images) |->
        [dtype |-> "float32", v |-> Activation(net.nb_classes, Forward(net, images[j]))]]

\* line 313: np.zeros(...) is a float64 array of zeros
Zeros(n) == [j \in 1..n |-> [dtype |-> "float64", v |-> <<"zero">>]]

\* line 315: a float32 map stored into the float64 array is widened, its value kept
Store(arr, i, map) == [arr EXCEPT ![i + 1] = [dtype |-> arr[i + 1].dtype, v |-> map.v]]

\* line 310: the whole stack in one pass
PredictStack ==
    /\ pc = "p_run"
    /\ SingleBatch(image_shape)
    /\ passes' = Append(passes, Pass(0, image_shape[1]))
    /\ decoded' = [j \in 1..image_shape[1] |-> Len(passes')]
    /\ decoded_imgs' = Predict(image_data)
    /\ pc' = "p_report"
    /\ UNCHANGED <<err, ctorVars, dataVars, net, training_cycles, runVars, image_shape, tile,
                   image_data, initVars, restVars>>

\* lines 312-313: decoded_imgs is allocated with zeros for n images
PredictTiles ==
    /\ pc = "p_run"
    /\ ~SingleBatch(image_shape)
    /\ decoded' = [j \in 1..image_shape[1] |-> 0]
    /\ decoded_imgs' = Zeros(image_shape[1])
    /\ tile' = 0
    /\ pc' = "p_loop"
    /\ UNCHANGED <<err, ctorVars, dataVars, net, training_cycles, runVars, image_shape,
                   passes, image_data, initVars, restVars>>

\* lines 314-315: image i in a pass of its own
PredictTile ==
    /\ pc = "p_loop"
    /\ tile < image_shape[1]
    /\ passes' = Append(passes, Pass(tile, tile + 1))
    /\ decoded' = [decoded EXCEPT ![tile + 1] = Len(passes')]
    /\ decoded_imgs' = Store(decoded_imgs, tile, Predict(Slice(image_data, tile, tile + 1))[1])
    /\ tile' = tile + 1
    /\ UNCHANGED <<pc, err, ctorVars, dataVars, net, training_cycles, runVars, image_shape,
                   image_data, initVars, restVars>>

\* lines 316-322: the count and the time are printed, images and maps returned
PredictReturn ==
    /\ \/ pc = "p_report"
       \/ pc = "p_loop" /\ tile >= image_shape[1]
    /\ pc' = "p_returned"
    /\ UNCHANGED <<err, ctorVars, dataVars, net, training_cycles, runVars, predVars, restVars>>

NextPredict ==
    \/ PredictStack
    \/ PredictTiles
    \/ PredictTile
    \/ PredictReturn

SpecPredict == InitPredict /\ [][NextPredict]_vars

\* ------------------------------------------------------ net_predict(...) called
\* image_data as the caller passes it: an array of rank 1 .. MaxRank. A rank-2 array is
\* one image, a rank-3 array a stack of images; items lists the images' contents.
ImageArgs ==
    {[ndim |-> 2, items |-> <<c>>] : c \in Pixels}
    \cup UNION {{[ndim |-> 3, items |-> it] : it \in [1..n -> Pixels]} : n \in 1..MaxStack}
    \cup {[ndim |-> r, items |-> <<>>] : r \in (1..MaxRank) \ {2, 3}}

\* net_predict(image_data, trained_model, ...) called with a trained model
InitPredictCtor ==
    /\ pc = "i_model" /\ err = "none"
    /\ IdleCtor /\ IdleData /\ IdleRun /\ IdleRest
    /\ net = NoNet /\ training_cycles = 0
    /\ image_arg \in ImageArgs
    /\ ndim = image_arg.ndim
    /\ mock_passes = 0
    /\ image_shape = <<0, 0, 0, 0>> /\ tile = 0 /\ passes = <<>> /\ decoded = <<>>
    /\ image_data = <<>> /\ decoded_imgs = <<>>

\* lines 262-272: mock_forward runs the model on mock data once for each of
\* nb_classes and downsampling that the caller did not pass
MockPasses(nb_given, ds_given) == (IF nb_given THEN 0 ELSE 1) + (IF ds_given THEN 0 ELSE 1)

\* lines 254-277: the model is taken, inspected and placed on its device
Introspect ==
    /\ pc = "i_model"
    /\ \E nb_given \in BOOLEAN, ds_given \in BOOLEAN, use_gpu \in BOOLEAN,
          nb \in {1, MaxLabel + 1} :
          /\ mock_passes' = mock_passes + MockPasses(nb_given, ds_given)
          /\ net' = [type |-> "dilUnet", nb_classes |-> nb,
                     device |-> IF use_gpu THEN "cuda" ELSE "cpu", steps |-> 0]
    /\ pc' = "i_rank"
    /\ UNCHANGED <<err, ctorVars, dataVars, training_cycles, runVars, image_shape, tile,
                   passes, decoded, image_data, decoded_imgs, image_arg, ndim, restVars>>

\* a normalisation that leaves every rank as it is
ExpandRank_None(r) == r

\* lines 278-279: np.expand_dims(image_data, axis=0) for a rank-2 array
ExpandRank(r) == IF r = 2 THEN 3 ELSE r

ExpandDims ==
    /\ pc = "i_rank"
    /\ ndim' = ExpandRank(ndim)
    /\ pc' = "i_format"
    /\ UNCHANGED <<err, ctorVars, dataVars, net, training_cycles, runVars, image_shape, tile,
                   passes, decoded, image_data, decoded_imgs, image_arg, mock_passes,
                   restVars>>

\* the rank img_resize, img_pad and torch_format take: a stack of 2D images
RankAccepted(r) == r = 3

\* lines 280-285: the stack is resized, padded and formatted as n x 1 x h x w, stored
\* in self.image_data, and run() is entered; an array that is not a stack of 2D
\* images is rejected
PadFormat ==
    /\ pc = "i_format"
    /\ IF RankAccepted(ndim)
         THEN /\ \E side \in {TileDim - DimSpan, TileDim} :
                    image_shape' = <<Len(image_arg.items), 1, side, side>>
              /\ image_data' = image_arg.items
              /\ pc' = "p_run" /\ err' = err
         ELSE /\ Raise("InvalidInputShape")
              /\ UNCHANGED <<image_shape, image_data>>
    /\ UNCHANGED <<ctorVars, dataVars, net, training_cycles, runVars, tile, passes, decoded,
                   decoded_imgs, initVars, restVars>>

NextPredictCtor ==
    \/ Introspect
    \/ ExpandDims
    \/ PadFormat
    \/ PredictStack
    \/ PredictTiles
    \/ PredictTile
    \/ PredictReturn

SpecPredictCtor == InitPredictCtor /\ [][NextPredictCtor]_vars

\* ------------------------------------------------------ dklGPR after fit()
\* Calls made on a dklGPR object once fit() has returned. fit() runs the trainer, which
\* leaves the GP model and the likelihood in training mode with no prediction strategy.
InitGP ==
    /\ pc = "g_ready" /\ err = "none"
    /\ IdleCtor /\ IdleData /\ IdleRun /\ IdlePred /\ IdleAug
    /\ net = NoNet /\ training_cycles = 0
    /\ correlated_output \in BOOLEAN
    /\ gp_mode = "train" /\ likelihood_mode = "train"
    /\ prediction_strategy = NoStrategy /\ queries = 0 /\ ops = <<>>

\* a decode that accepts every model
DecodeSupported_Any(correlated) == TRUE

\* line 163: if not self.correlated_output: raise NotImplementedError
DecodeSupported(correlated) == correlated

\* a decode that queries the posterior whether or not a strategy is cached
NeedsFill_Always(strategy) == TRUE

\* line 169: if m.prediction_strategy is None
NeedsFill(strategy) == ~strategy.cached

\* lines 88 / 90: the GP model called on inputs in eval mode; q is the number of this
\* query. The model computes its prediction strategy on the first such call and
\* reuses it from then on.
CallModel(strategy, q) == IF strategy.cached THEN strategy ELSE [cached |-> TRUE, by |-> q]

Called(op, result, asked) == [op |-> op, result |-> result, queries |-> asked]

\* lines 77-91: _compute_posterior called k times in a row (k >= 1)
ComputePosterior(k) ==
    /\ gp_mode' = "eval" /\ likelihood_mode' = "eval"
    /\ queries' = queries + k
    /\ prediction_strategy' = CallModel(prediction_strategy, queries + 1)

\* lines 158-187: decode(z_emb)
DklDecode ==
    /\ pc = "g_ready" /\ Len(ops) < MaxCalls
    /\ IF ~DecodeSupported(correlated_output)
         THEN /\ ops' = Append(ops, Called("decode", "UnsupportedMode", 0))
              /\ UNCHANGED <<gp_mode, likelihood_mode, prediction_strategy, queries>>
         ELSE IF NeedsFill(prediction_strategy)
                THEN /\ ComputePosterior(1)
                     /\ ops' = Append(ops, Called("decode", "returned", 1))
                ELSE /\ gp_mode' = "eval"
                     /\ ops' = Append(ops, Called("decode", "returned", 0))
                     /\ UNCHANGED <<likelihood_mode, prediction_strategy, queries>>
    /\ UNCHANGED <<pc, err, ctorVars, dataVars, net, training_cycles, runVars, predVars,
                   correlated_output, augVars>>

\* lines 117-132: predict(X_new); the data loader yields k batches, _predict queries
\* the posterior once per batch
DklPredict ==
    /\ pc = "g_ready" /\ Len(ops) < MaxCalls
    /\ \E k \in 1..MaxLoader :
          /\ ComputePosterior(k)
          /\ ops' = Append(ops, Called("predict", "returned", k))
    /\ UNCHANGED <<pc, err, ctorVars, dataVars, net, training_cycles, runVars, predVars,
                   correlated_output, augVars>>

\* lines 93-107: sample_from_posterior(X, num_samples)
DklSample ==
    /\ pc = "g_ready" /\ Len(ops) < MaxCalls
    /\ ComputePosterior(1)
    /\ ops' = Append(ops, Called("sample_from_posterior", "returned", 1))
    /\ UNCHANGED <<pc, err, ctorVars, dataVars, net, training_cycles, runVars, predVars,
                   correlated_output, augVars>>

\* lines 134-156: embed(X_new); _embed puts the GP model in eval mode and applies the
\* feature extractor, with no posterior query
DklEmbed ==
    /\ pc = "g_ready" /\ Len(ops) < MaxCalls
    /\ gp_mode' = "eval"
    /\ ops' = Append(ops, Called("embed", "returned", 0))
    /\ UNCHANGED <<pc, err, ctorVars, dataVars, net, training_cycles, runVars, predVars,
                   correlated_output, likelihood_mode, prediction_strategy, queries,
                   augVars>>

NextGP ==
    \/ DklDecode
    \/ DklPredict
    \/ DklSample
    \/ DklEmbed

SpecGP == InitGP /\ [][NextGP]_vars

\* ------------------------------------------------------ Segmentor.fit(..., **kwargs)
\* keyword names a caller may pass: augmentation options, trainer options, a misspelt option
ArgKeys == {"zoom", "rotation", "background", "print_loss", "gauss_nois"}

\* **kwargs: each key absent or present with one value
KwargSets == {kw \in SUBSET (ArgKeys \X (1..MaxOption)) :
                 \A p \in kw, q \in kw : p[1] = q[1] => p = q}

\* fit() called on a Segmentor with nb_classes output channels
InitAug ==
    /\ pc = "a_fit" /\ err = "none"
    /\ IdleCtor /\ IdleData /\ IdleRun /\ IdlePred /\ IdleGP
    /\ \E nb \in {1, MaxLabel + 1} :
          net = [type |-> "Unet", nb_classes |-> nb, device |-> "cpu", steps |-> 0]
    /\ training_cycles \in 1..MaxCycles
    /\ kwargs \in KwargSets
    /\ augment_fn = NoAugmentor /\ aug_cycle = 0
    /\ aug_batch = NoAugBatch /\ aug_out = NoAugBatch /\ dt_calls = <<>>

\* lines 201-203
AugList == {"custom_transform", "zoom", "gauss_noise", "jitter", "poisson_noise",
            "contrast", "salt_and_pepper", "blur", "resize", "rotation", "background"}

\* every keyword forwarded
AugDict_All(kw) == kw

\* line 204: augdict = {k: kwargs[k] for k in auglist if k in kwargs.keys()}
AugDict(kw) == {p \in kw : p[1] \in AugList}

\* lines 198-224: None when no option is recognized, the closure augmentor otherwise
SegAugmentor(nb_classes, kw) ==
    IF Cardinality(AugDict(kw)) = 0
      THEN NoAugmentor
      ELSE [callable |-> TRUE, nb_classes |-> nb_classes, augdict |-> AugDict(kw)]

\* lines 211-213: datatransform(nb_classes, "channel_first", "channel_first", True, seed, **augdict)
DataTransform(nb_classes, seed, options) ==
    [nb_classes |-> nb_classes, seed |-> seed, options |-> options]

\* lines 208-222: augmentor(images, labels, seed): both tensors go through dt.run
Augmentor(fn, b, seed) ==
    LET dt == DataTransform(fn.nb_classes, seed, fn.augdict)
    IN  [images |-> [by |-> dt, of |-> b.images.of],
         labels |-> [by |-> dt, of |-> b.labels.of]]

\* the trainer's step: the pipeline is applied to the training batch when there is one
ApplyAugment(fn, b, seed) == IF fn.callable THEN Augmentor(fn, b, seed) ELSE b

\* lines 138-144: the trainer is compiled and the pipeline built from the same kwargs
FitCompile ==
    /\ pc = "a_fit"
    /\ augment_fn' = SegAugmentor(net.nb_classes, kwargs)
    /\ pc' = "a_run"
    /\ UNCHANGED <<err, ctorVars, dataVars, net, training_cycles, runVars, predVars, gpVars,
                   kwargs, aug_cycle, aug_batch, aug_out, dt_calls>>

\* line 145, one cycle of self.run(): a training batch is selected and passed through
\* the pipeline with the cycle as seed
AugmentStep ==
    /\ pc = "a_run"
    /\ aug_cycle < training_cycles
    /\ \E img \in Pixels, lbl \in 0..MaxLabel :
          aug_batch' = [images |-> Tensor(img), labels |-> Tensor(lbl)]
    /\ aug_out' = ApplyAugment(augment_fn, aug_batch', aug_cycle)
    /\ dt_calls' = IF augment_fn.callable
                     THEN Append(dt_calls, DataTransform(augment_fn.nb_classes, aug_cycle,
                                                         augment_fn.augdict))
                     ELSE dt_calls
    /\ aug_cycle' = aug_cycle + 1
    /\ UNCHANGED <<pc, err, ctorVars, dataVars, net, training_cycles, runVars, predVars,
                   gpVars, kwargs, augment_fn>>

\* line 145: self.run() returns after the last cycle
FitReturn ==
    /\ pc = "a_run"
    /\ aug_cycle >= training_cycles
    /\ pc' = "a_returned"
    /\ UNCHANGED <<err, ctorVars, dataVars, net, training_cycles, runVars, predVars,
                   restVars>>

NextAug ==
    \/ FitCompile
    \/ AugmentStep
    \/ FitReturn

SpecAug == InitAug /\ [][NextAug]_vars

\* ------------------------------------------------------------ all the calls
Init == InitConstruct \/ InitRun \/ InitPredict \/ InitPredictCtor \/ InitGP \/ InitAug

Next == NextConstruct \/ NextRun \/ NextPredictCtor \/ NextGP \/ NextAug

Spec == Init /\ [][Next]_vars

\* ===================================================================== claims

\* every label chunk the constructor holds, training and test
AllChunks == {labels_all[i] : i \in 1..Len(labels_all)}
                 \cup {labels_test_all[i] : i \in 1..Len(labels_test_all)}

\* the constructor has executed the class validation of lines 102-107
Validated ==
    \/ pc \in {"c_net", "c_loss", "c_fields"}
    \/ pc = "raised" /\ err \notin {"FormatMismatch", "UnsupportedFormat", "ValueError"}

\* C1: for bulk arrays of n training and m test samples and a batch size b with
\* 1 <= b <= n and b <= m, the constructor does not fail in the split, holds exactly
\* n div b training chunks and m div b test chunks, and dataloader returns at most b
\* samples from each of them.
C1_BulkSplitFloor ==
    (/\ pc \in {"c_classes", "c_net", "c_loss", "c_fields", "raised"}
     /\ forms = <<"ndarray", "ndarray", "ndarray", "ndarray">>
     /\ batch_size <= Len(arg_labels)
     /\ batch_size <= Len(arg_labels_test))
    => /\ err # "ValueError"
       /\ Len(images_all) = Len(arg_labels) \div batch_size
       /\ Len(labels_all) = Len(arg_labels) \div batch_size
       /\ Len(images_test_all) = Len(arg_labels_test) \div batch_size
       /\ Len(labels_test_all) = Len(arg_labels_test) \div batch_size
       /\ \A num \in 0..(Len(images_all) - 1) :
             Dataloader(images_all, num, batch_size) <= batch_size
       /\ \A num \in 0..(Len(images_test_all) - 1) :
             Dataloader(images_test_all, num, batch_size) <= batch_size

\* C2: once the class validation has run on label chunks that all hold k distinct
\* values, k = 1 has failed with MissingBackgroundClass and no channel count, k = 2 has
\* given the channel count 1 and k > 2 the channel count k, also in the network built.
C2_ClassCardinality ==
    \A k \in 1..(MaxLabel + 1) :
        (/\ Validated
         /\ \A i \in 1..Len(labels_all) : Cardinality(labels_all[i].vals) = k)
        => /\ (k = 1) => (pc = "raised" /\ err = "MissingBackgroundClass"
                          /\ num_classes = 0 /\ net = NoNet)
           /\ (k = 2) => (err # "MissingBackgroundClass" /\ num_classes = 1)
           /\ (k > 2) => (err # "MissingBackgroundClass" /\ num_classes = k)
           /\ (net # NoNet) => (net.nb_classes = IF k = 2 THEN 1 ELSE k)

\* C2 witness: a network with 3 output channels built for chunks of 3 distinct values
C2_Witness ==
    /\ pc = "c_loss"
    /\ net.nb_classes = 3
    /\ \A i \in 1..Len(labels_all) : Cardinality(labels_all[i].vals) = 3

\* C3: whenever the constructor is past the class validation, all label chunks,
\* training and test, hold the same number of distinct values.
C3_UniformCardinality ==
    num_classes # 0 =>
        \A c1 \in AllChunks, c2 \in AllChunks :
            Cardinality(c1.vals) = Cardinality(c2.vals)

\* the errors with which the constructor rejects its arguments
InputErrors == {"FormatMismatch", "UnsupportedFormat", "ValueError", "InconsistentClasses",
                "MissingBackgroundClass", "UnsupportedModelType", "UnsupportedLoss"}

\* C4: the constructor fails only by rejecting its arguments (with valid arguments it
\* goes on to run the loop), and when training has finished both loss histories hold
\* exactly training_cycles entries.
C4_ConstructorTrains ==
    /\ (pc = "raised") => (err \in InputErrors)
    /\ (pc = "r_returned") => /\ Len(train_loss) = training_cycles
                              /\ Len(test_loss) = training_cycles

AllFinite(losses) == \A j \in 1..Len(losses) : IsFinite(losses[j])

\* C5: after a run of N >= 1 cycles has returned (here: with finite test losses only), a
\* "best" checkpoint exists and the test loss of the state it holds is the minimum of
\* the test-loss history.
C5_BestIsMinimum ==
    (pc = "r_returned" /\ training_cycles >= 1 /\ AllFinite(test_loss))
    => /\ best.exists
       /\ \A j \in 1..Len(test_loss) : FLe(best.loss, test_loss[j])

\* m is the minimum of the losses: one of them, and <= each of them
IsMinimum(m, losses) ==
    /\ \E j \in 1..Len(losses) : losses[j] = m
    /\ \A j \in 1..Len(losses) : FLe(m, losses[j])

\* the test loss of cycle c (0-based) is strictly less than the minimum of all earlier ones
NewMinimum(c) ==
    /\ c > 0
    /\ \E j \in 1..c :
          /\ IsMinimum(test_loss[j], SubSeq(test_loss, 1, c))
          /\ FLt(test_loss[c + 1], test_loss[j])

\* C6: if a "best" checkpoint exists, the test loss of the cycle that wrote it is <= the
\* test loss of every later cycle, and the checkpoint has been written exactly at the
\* cycles e > 0 whose test loss is strictly less than the minimum of all earlier ones.
C6_BestMonotone ==
    /\ best.exists =>
          \A j \in (best.cycle + 2)..Len(test_loss) : FLe(best.loss, test_loss[j])
    /\ \A c \in 0..(Len(test_loss) - 1) :
          (\E q \in 1..Len(best_saves) : best_saves[q] = c) <=> NewMinimum(c)

\* C6 on runs whose test losses are all numbers or infinities (no NaN)
C6_BestMonotoneWithoutNaN ==
    (\A j \in 1..Len(test_loss) : test_loss[j] # NaN) => C6_BestMonotone

\* C7: the "best" checkpoint never holds a state whose test loss was not finite.
C7_BestFinite == best.exists => IsFinite(best.loss)

\* cycle j (1-based) produced a non-finite train or test loss
NonFiniteAt(j) ==
    \/ j <= Len(train_loss) /\ ~IsFinite(train_loss[j])
    \/ j <= Len(test_loss) /\ ~IsFinite(test_loss[j])

\* C8: once a cycle has produced a non-finite loss, no later cycle runs, the "final"
\* checkpoint is not written and the run does not return as if it had converged.
C8_AbortOnNonFinite ==
    \A j \in 1..Len(train_loss) :
        NonFiniteAt(j) => /\ Len(train_loss) <= j
                          /\ final.writes = 0
                          /\ pc # "r_returned"

RECURSIVE SumNum(_)
SumNum(losses) ==
    IF losses = <<>> THEN 0 ELSE losses[1].v + SumNum(Tail(losses))

\* C9: "final" is written at most once, exactly when all training_cycles cycles are
\* complete and before any evaluation step; the evaluation reads the test batches
\* 0, 1, ... in order, each once, and the run returns only with the mean of their losses
\* reported (to the 4 decimals printed; NaN if one of them is NaN).
C9_Termination ==
    /\ final.writes <= 1
    /\ (final.writes = 1) <=> (pc \in {"r_eval", "r_returned"})
    /\ (final.writes = 1) => /\ final.after = training_cycles
                             /\ final.steps = training_cycles
                             /\ Len(train_loss) = training_cycles
                             /\ Len(test_loss) = training_cycles
    /\ (final.writes = 0) => (visited = <<>> /\ eval_losses = <<>>)
    /\ visited = [j \in 1..Len(visited) |-> j - 1]
    /\ Len(visited) <= Len(images_test_all)
    /\ Len(eval_losses) = Len(visited)
    /\ (report # NoReport) <=> (pc = "r_returned")
    /\ (pc = "r_returned") =>
          /\ Len(visited) = Len(images_test_all)
          /\ IF AllFinite(eval_losses)
               THEN LET d == report.v * Len(eval_losses) - 10000 * SumNum(eval_losses)
                    IN  /\ report.k = "num"
                        /\ 2 * d <= Len(eval_losses)
                        /\ -2 * d <= Len(eval_losses)
               ELSE report = NaN

\* C9 witness: a run of several cycles has returned after evaluating two test batches
\* with different losses
C9_Witness ==
    /\ pc = "r_returned"
    /\ training_cycles >= 2
    /\ visited = <<0, 1>>
    /\ eval_losses = <<Num(1), Num(2)>>
    /\ report = Num(15000)

\* C10: when net_predict.run returns for a stack of n images of size h x w: if n < 20
\* and min(h, w) < 512 there was one forward pass, over the whole stack; otherwise
\* there were n passes, the j-th over image j alone; either way every image is in
\* exactly one pass and has its probability map.
C10_TilingPolicy ==
    (pc = "p_returned") =>
        LET n == image_shape[1]
            h == image_shape[3]
            w == image_shape[4]
        IN  /\ IF n < 20 /\ (h < 512 \/ w < 512)
                 THEN passes = <<Pass(0, n)>>
                 ELSE /\ Len(passes) = n
                      /\ \A j \in 1..n : passes[j] = Pass(j - 1, j)
            /\ \A j \in 0..(n - 1) :
                  Cardinality({q \in 1..Len(passes) :
                                  passes[q].lo <= j /\ j < passes[q].hi}) = 1
            /\ Len(decoded) = n
            /\ \A j \in 1..n :
                  /\ decoded[j] \in 1..Len(passes)
                  /\ passes[decoded[j]].lo <= j - 1 /\ j - 1 < passes[decoded[j]].hi

\* C10 witness: a stack of 19 images, one side 512, has been decoded image by image
C10_Witness ==
    /\ pc = "p_returned"
    /\ image_shape[1] = 19
    /\ MinOf(image_shape[3], image_shape[4]) = 512
    /\ Len(passes) = 19

\* C11: for a fixed model whose forward pass acts on each image alone, and a fixed
\* stack, the maps net_predict.run returns are, image by image, the maps of the
\* single-batch path (predict over the whole stack) and the maps of the
\* one-image-at-a-time path (predict over each image alone), so the two paths agree.
C11_TilingEquivalence ==
    (pc = "p_returned") =>
        /\ Len(decoded_imgs) = Len(image_data)
        /\ \A j \in 1..Len(image_data) :
              /\ decoded_imgs[j].v = Predict(image_data)[j].v
              /\ decoded_imgs[j].v = Predict(<<image_data[j]>>)[1].v

\* C11 witness: a stack of 20 images, neighbours differing, was decoded image by image
\* into a float64 array and holds the values the single-batch path computes
C11_Witness ==
    /\ pc = "p_returned"
    /\ image_shape[1] = TileStack
    /\ Len(passes) = TileStack
    /\ image_data[1] # image_data[2]
    /\ decoded_imgs[1].v # decoded_imgs[2].v
    /\ decoded_imgs[TileStack].dtype = "float64"
    /\ \A j \in 1..TileStack : decoded_imgs[j].v = Predict(image_data)[j].v

\* C12: a decode call on a dklGPR in independent-output mode (correlated_output false)
\* ends with UnsupportedMode, never with a result, and leaves the GP model's mode, the
\* likelihood's mode, the cached prediction strategy and the query count as they were.
C12_DecodeUnsupported ==
    [][(/\ ~correlated_output
        /\ ops' # ops
        /\ ops'[Len(ops')].op = "decode")
       => (/\ ops'[Len(ops')].result = "UnsupportedMode"
           /\ gp_mode' = gp_mode
           /\ likelihood_mode' = likelihood_mode
           /\ prediction_strategy' = prediction_strategy
           /\ queries' = queries)]_vars

\* C12 witness: decode was the first call on an independent-output model; it failed and
\* the GP model is still in the training mode fit() left it in, with nothing cached
C12_Witness ==
    /\ ~correlated_output
    /\ ops = <<Called("decode", "UnsupportedMode", 0)>>
    /\ gp_mode = "train" /\ likelihood_mode = "train"
    /\ prediction_strategy = NoStrategy /\ queries = 0

\* C13: on a dklGPR in correlated mode, a decode call makes one posterior query if no
\* prediction strategy is cached when it is called and none if one is cached, and the
\* strategy is populated when it returns; a decode, predict or sample_from_posterior
\* call that finds a strategy cached leaves that very strategy in place.
C13_LazyStrategy ==
    [][(correlated_output /\ ops' # ops)
       => LET last == ops'[Len(ops')]
          IN  /\ (last.op = "decode")
                    => /\ last.result = "returned"
                       /\ queries' = queries + (IF prediction_strategy.cached THEN 0 ELSE 1)
                       /\ prediction_strategy'.cached
              /\ (/\ last.op \in {"decode", "predict", "sample_from_posterior"}
                  /\ prediction_strategy.cached)
                    => prediction_strategy' = prediction_strategy]_vars

\* C13 witness: decode filled the cache with the first query, predict and
\* sample_from_posterior queried the posterior, and a second decode made no query;
\* the strategy is still the one the first query computed
C13_Witness ==
    /\ correlated_output
    /\ Len(ops) = 4
    /\ ops[1] = Called("decode", "returned", 1)
    /\ ops[2].op = "predict"
    /\ ops[3].op = "sample_from_posterior"
    /\ ops[4] = Called("decode", "returned", 0)
    /\ queries > 2
    /\ prediction_strategy = [cached |-> TRUE, by |-> 1]

\* C14: whenever net_train construction has failed with FormatMismatch,
\* InconsistentClasses, MissingBackgroundClass, UnsupportedModelType or UnsupportedLoss,
\* nothing of the controller was built: no network instantiated or moved to a device,
\* no criterion, no controller field set, no training cycle run.
C14_FailFast ==
    (/\ pc = "raised"
     /\ err \in {"FormatMismatch", "InconsistentClasses", "MissingBackgroundClass",
                 "UnsupportedModelType", "UnsupportedLoss"})
    => (/\ net = NoNet
        /\ criterion = "none"
        /\ fields = {}
        /\ train_loss = <<>> /\ test_loss = <<>> /\ mode = "unset")

RunPcs == {"p_run", "p_report", "p_loop", "p_returned"}

C17_OnlyTrainingChangesNet ==
    [][/\ (net' # net) => (train_loss' # train_loss)
       /\ (train_loss' # train_loss)
             => (/\ Len(train_loss) = Len(test_loss)
                 /\ mode' = "train"
                 /\ net'.steps = net.steps + 1)
       /\ (test_loss' # test_loss)
             => (/\ Len(train_loss) = Len(test_loss) + 1
                 /\ mode = "train" /\ mode' = "eval"
                 /\ net' = net)
       /\ (final' # final) => (net' = net /\ final'.steps = net.steps)
       /\ (eval_losses' # eval_losses)
             => (/\ mode' = "eval"
                 /\ net' = net
                 /\ final.writes = 1 /\ final.steps = net.steps)]_vars

\* C17 witness: run() returned after three cycles and a final evaluation over two test
\* batches; the net made three optimizer steps and the final file holds that net
C17_Witness ==
    /\ pc = "r_returned"
    /\ Len(train_loss) = 3 /\ Len(test_loss) = 3
    /\ Len(eval_losses) = 2
    /\ net.steps = 3
    /\ final = [writes |-> 1, steps |-> 3, after |-> 3]
    /\ mode = "eval"

====
